---- MODULE Spec2Model ----
(***************************************************************************)
(* Chat log store (models/chat_logs.py) and its HTTP API                   *)
(* (routers/chat_logs.py).                                                 *)
(*                                                                         *)
(* The chat_log table is a set of rows keyed by conversation_id.  Every    *)
(* store method runs in one transaction and is one step here.  A router    *)
(* handler is one step under Spec (requests handled one at a time); under  *)
(* SpecConc the DELETE /{conversation_id} handler is split at the boundary *)
(* between its two store transactions, and other operations interleave.    *)
(*                                                                         *)
(* The storage engine is taken to be available: a commit fails only on a   *)
(* primary-key conflict.  The wall clock does not run backwards.  The      *)
(* messages are JSON values (lists of string-keyed objects), which the     *)
(* JSON column gives back as they were stored.  Rows that tie on           *)
(* created_at are returned in any order.  The display name a response      *)
(* carries comes from the user directory and is left out.                  *)
(***************************************************************************)
EXTENDS Integers, Sequences, FiniteSets

VARIABLES
    table,      \* rows of chat_log
    now,        \* int(time.time())
    last,       \* the latest call or request, its arguments and its outcome
    prev,       \* table as it was when the latest call's last transaction began
    inflight    \* DELETE /{conversation_id} requests between their two transactions

vars == <<table, now, last, prev, inflight>>

---------------------------------------------------------------------------
(* Bounds of the model *)

MaxTime == 2
MaxInflight == 1

---------------------------------------------------------------------------
(* Values *)

None == "None"
NoLog == [none |-> TRUE]
NoException == ""

Users == {"u1", "u2"}
ConvIds == {"c1", "c2"}

Msgs1 == <<[role |-> "user", content |-> "hi"]>>
Msgs2 == <<[role |-> "user", content |-> "hi"], [role |-> "assistant", content |-> "hello"]>>

Payloads ==
    { [model |-> "m1", messages |-> Msgs1, response |-> "hello"],
      [model |-> "m2", messages |-> Msgs2, response |-> "bye"] }

HTTP_200 == 200
HTTP_403 == 403
HTTP_404 == 404
HTTP_500 == 500
DefaultLimit == 50
DefaultSkip == 0

\* paging arguments tried; DefaultLimit exceeds every table of the model
Skips == {DefaultSkip, 1}
Limits == {0, 1, DefaultLimit}

\* ChatLogFilter()
ChatLogFilter == [user_id |-> None, conversation_id |-> None, skip |-> DefaultSkip, limit |-> DefaultLimit]

\* ChatLogFilter bodies sent to GET /, which reads conversation_id, skip and limit
ListFilters ==
    [ user_id : {None},
      conversation_id : ConvIds \cup {None, ""},
      skip : Skips,
      limit : Limits ]

\* ChatLogFilter bodies sent to DELETE /admin, which reads conversation_id and user_id
DeleteFilters ==
    [ user_id : Users \cup {None, ""},
      conversation_id : ConvIds \cup {None, ""},
      skip : {DefaultSkip},
      limit : {DefaultLimit} ]

\* filter: ChatLogFilter = None
NoFilter == [none |-> TRUE]

\* Python truthiness of an Optional[str]
Truthy(s) == s /= None /\ s /= ""

Min(a, b) == IF a <= b THEN a ELSE b

---------------------------------------------------------------------------
(* The store: models/chat_logs.py *)

\* a create_chat_log that stamps created_at only
NewChatLog_UpdatedAtUnset(conversation_id, user_id, model, messages, response, timestamp) ==
    [ conversation_id |-> conversation_id,
      user_id |-> user_id,
      model |-> model,
      messages |-> messages,
      response |-> response,
      created_at |-> timestamp,
      updated_at |-> 0 ]

\* ChatLogModel(**{...}) in create_chat_log
NewChatLog(conversation_id, user_id, model, messages, response, timestamp) ==
    [ conversation_id |-> conversation_id,
      user_id |-> user_id,
      model |-> model,
      messages |-> messages,
      response |-> response,
      created_at |-> timestamp,
      updated_at |-> timestamp ]

HasRow(t, conversation_id) == \E r \in t : r.conversation_id = conversation_id

Row(t, conversation_id) == CHOOSE r \in t : r.conversation_id = conversation_id

\* a commit that replaces the row of the same key (db.merge instead of db.add)
DbAddCommit_Overwrite(t, row) ==
    [table |-> {r \in t : r.conversation_id /= row.conversation_id} \cup {row}, raised |-> NoException]

\* db.add(result); db.commit(): the primary key rejects a second row
DbAddCommit(t, row) ==
    IF HasRow(t, row.conversation_id)
    THEN [table |-> t, raised |-> "IntegrityError"]
    ELSE [table |-> t \cup {row}, raised |-> NoException]

\* get_chat_log_by_conversation_id: db.get, model_validate(None) raises, except -> None
GetChatLogByConversationId(t, conversation_id) ==
    IF HasRow(t, conversation_id) THEN Row(t, conversation_id) ELSE NoLog

\* delete_chat_log_by_conversation_id: query.filter_by(conversation_id).delete()
DeleteByConversationId(t, conversation_id) ==
    {r \in t : r.conversation_id /= conversation_id}

\* an update that stamps created_at as well
UpdatedChatLog_StampsCreatedAt(chat_log, user_id, model, messages, response, timestamp) ==
    [chat_log EXCEPT !.user_id = user_id,
                     !.model = model,
                     !.messages = messages,
                     !.response = response,
                     !.created_at = timestamp,
                     !.updated_at = timestamp]

\* the assignments of update_chat_log
UpdatedChatLog(chat_log, user_id, model, messages, response, timestamp) ==
    [chat_log EXCEPT !.user_id = user_id,
                     !.model = model,
                     !.messages = messages,
                     !.response = response,
                     !.updated_at = timestamp]

\* an update that inserts the row when there is none
UpdateResult_Upsert(t, conversation_id, user_id, model, messages, response, timestamp) ==
    LET new == IF HasRow(t, conversation_id)
               THEN UpdatedChatLog(Row(t, conversation_id), user_id, model, messages, response, timestamp)
               ELSE NewChatLog(conversation_id, user_id, model, messages, response, timestamp)
    IN  [table |-> {r \in t : r.conversation_id /= conversation_id} \cup {new}, log |-> new]

\* update_chat_log: first() is None -> return None, else overwrite and commit
UpdateResult(t, conversation_id, user_id, model, messages, response, timestamp) ==
    IF ~HasRow(t, conversation_id)
    THEN [table |-> t, log |-> NoLog]
    ELSE LET old == Row(t, conversation_id)
             new == UpdatedChatLog(old, user_id, model, messages, response, timestamp)
         IN  [table |-> (t \ {old}) \cup {new}, log |-> new]

\* all orders in which the engine may return a set of rows
Orderings(rows) ==
    {s \in [1..Cardinality(rows) -> rows] : \A i, j \in 1..Cardinality(rows) : i /= j => s[i] /= s[j]}

\* an ascending order in place of the descending one
CreatedAtDesc_Ascending(a, b) == a.created_at <= b.created_at

\* order_by(ChatLog.created_at.desc()): a row may come directly before another
CreatedAtDesc(a, b) == a.created_at >= b.created_at

\* order_by(ChatLog.created_at.asc())
CreatedAtAsc(a, b) == a.created_at <= b.created_at

\* .offset(skip).limit(limit)
OffsetLimit(s, skip, limit) == SubSeq(s, skip + 1, Min(Len(s), skip + limit))

\* filter_by(user_id=user_id)
FilterByUserId(t, user_id) == {r \in t : r.user_id = user_id}

\* get_chat_logs_by_user_id: every list the query may return (rows with equal
\* created_at come in an order the engine chooses)
GetChatLogsByUserId(t, user_id, skip, limit) ==
    { OffsetLimit(s, skip, limit) :
        s \in {o \in Orderings(FilterByUserId(t, user_id)) :
                 \A i \in 1..(Len(o) - 1) : CreatedAtDesc(o[i], o[i + 1])} }

\* get_chat_logs_by_conversation_id
GetChatLogsByConversationId(t, conversation_id, skip, limit) ==
    { OffsetLimit(s, skip, limit) :
        s \in {o \in Orderings({r \in t : r.conversation_id = conversation_id}) :
                 \A i \in 1..(Len(o) - 1) : CreatedAtAsc(o[i], o[i + 1])} }

---------------------------------------------------------------------------
(* The API layer: routers/chat_logs.py *)

\* if filter is None: filter = ChatLogFilter()
FilterOrDefault(filter) == IF filter = NoFilter THEN ChatLogFilter ELSE filter

\* except Exception as e: raise HTTPException(500); HTTPException is an Exception,
\* so what the try block raises itself is caught as well
StatusOf(raised) == IF raised = NoException THEN HTTP_200 ELSE HTTP_500

\* a handler that checks existence only
VerifyOwnership_ExistenceOnly(log, user) ==
    IF log = NoLog THEN "HTTPException(404)" ELSE NoException

\* "if not log: raise 404" and "if log.user_id != user.id: raise 403"
VerifyOwnership(log, user) ==
    IF log = NoLog THEN "HTTPException(404)"
    ELSE IF log.user_id /= user THEN "HTTPException(403)"
    ELSE NoException

\* building response_logs reads log.title of each log; ChatLogModel has no such field
ResponseLogsRaised(logs) == IF Len(logs) > 0 THEN "AttributeError" ELSE NoException

\* ChatLogResponse(...) of a log (user_name, resolved by the user directory, is left out)
ChatLogResponse(log) ==
    [ conversation_id |-> log.conversation_id,
      user_id |-> log.user_id,
      model |-> log.model,
      messages |-> log.messages,
      response |-> log.response,
      created_at |-> log.created_at ]

\* the user_id branch tested before the conversation_id branch
AdminDelete_UserFirst(t, filter) ==
    IF Truthy(filter.user_id) THEN {r \in t : r.user_id /= filter.user_id}
    ELSE IF Truthy(filter.conversation_id) THEN DeleteByConversationId(t, filter.conversation_id)
    ELSE {}

\* delete_all_chat_logs: by conversation_id, else by user_id, else everything
AdminDelete(t, filter) ==
    IF Truthy(filter.conversation_id) THEN DeleteByConversationId(t, filter.conversation_id)
    ELSE IF Truthy(filter.user_id) THEN {r \in t : r.user_id /= filter.user_id}
    ELSE {}

---------------------------------------------------------------------------
(* State *)

Idle ==
    [ op |-> "none", caller |-> None, conversation_id |-> None, user_id |-> None,
      model |-> None, messages |-> <<>>, response |-> None, filter |-> NoFilter,
      skip |-> 0, limit |-> 0, ts |-> 0, raised |-> NoException, status |-> 0,
      log |-> NoLog, ok |-> FALSE, data |-> <<>>, count |-> 0 ]

Init ==
    /\ table = {}
    /\ now \in 1..MaxTime
    /\ last = Idle
    /\ prev = {}
    /\ inflight = {}

\* time passes
Tick ==
    /\ now < MaxTime
    /\ now' = now + 1
    /\ UNCHANGED <<table, last, prev, inflight>>

---------------------------------------------------------------------------
(* Store calls *)

CreateChatLog(conversation_id, user_id, p) ==
    LET timestamp == now
        chat_log == NewChatLog(conversation_id, user_id, p.model, p.messages, p.response, timestamp)
        r == DbAddCommit(table, chat_log)
    IN  /\ table' = r.table
        /\ prev' = table
        /\ last' = [Idle EXCEPT !.op = "create_chat_log",
                                !.conversation_id = conversation_id,
                                !.user_id = user_id,
                                !.model = p.model,
                                !.messages = p.messages,
                                !.response = p.response,
                                !.ts = timestamp,
                                !.raised = r.raised,
                                !.log = IF r.raised = NoException THEN chat_log ELSE NoLog]
        /\ UNCHANGED <<now, inflight>>

UpdateChatLog(conversation_id, user_id, p) ==
    LET timestamp == now
        r == UpdateResult(table, conversation_id, user_id, p.model, p.messages, p.response, timestamp)
    IN  /\ table' = r.table
        /\ prev' = table
        /\ last' = [Idle EXCEPT !.op = "update_chat_log",
                                !.conversation_id = conversation_id,
                                !.user_id = user_id,
                                !.model = p.model,
                                !.messages = p.messages,
                                !.response = p.response,
                                !.ts = timestamp,
                                !.log = r.log]
        /\ UNCHANGED <<now, inflight>>

ListChatLogsByUserId(user_id, skip, limit) ==
    \E logs \in GetChatLogsByUserId(table, user_id, skip, limit) :
        /\ prev' = table
        /\ last' = [Idle EXCEPT !.op = "get_chat_logs_by_user_id",
                                !.user_id = user_id,
                                !.skip = skip,
                                !.limit = limit,
                                !.data = logs,
                                !.count = Len(logs)]
        /\ UNCHANGED <<table, now, inflight>>

---------------------------------------------------------------------------
(* Requests *)

\* GET /
GetChatLogs(user, filterArg) ==
    LET filter == FilterOrDefault(filterArg)
        lists == IF Truthy(filter.conversation_id)
                 THEN GetChatLogsByConversationId(table, filter.conversation_id, filter.skip, filter.limit)
                 ELSE GetChatLogsByUserId(table, user, filter.skip, filter.limit)
    IN  \E logs \in lists :
            LET raised == ResponseLogsRaised(logs)
            IN  /\ prev' = table
                /\ last' = [Idle EXCEPT !.op = "GET /",
                                        !.caller = user,
                                        !.filter = filter,
                                        !.raised = raised,
                                        !.status = StatusOf(raised),
                                        !.data = IF raised = NoException
                                                 THEN [i \in 1..Len(logs) |-> ChatLogResponse(logs[i])]
                                                 ELSE <<>>,
                                        !.count = IF raised = NoException THEN Len(logs) ELSE 0]
                /\ UNCHANGED <<table, now, inflight>>

\* DELETE /admin
DeleteAllChatLogs(filterArg) ==
    LET filter == FilterOrDefault(filterArg)
    IN  /\ table' = AdminDelete(table, filter)
        /\ prev' = table
        /\ last' = [Idle EXCEPT !.op = "DELETE /admin",
                                !.filter = filter,
                                !.status = StatusOf(NoException),
                                !.ok = TRUE]
        /\ UNCHANGED <<now, inflight>>

\* GET /{conversation_id}
GetChatLog(user, conversation_id) ==
    LET log == GetChatLogByConversationId(table, conversation_id)
        raised == VerifyOwnership(log, user)
    IN  /\ prev' = table
        /\ last' = [Idle EXCEPT !.op = "GET /{conversation_id}",
                                !.caller = user,
                                !.conversation_id = conversation_id,
                                !.raised = raised,
                                !.status = StatusOf(raised),
                                !.log = IF raised = NoException THEN ChatLogResponse(log) ELSE NoLog]
        /\ UNCHANGED <<table, now, inflight>>

\* what DELETE /{conversation_id} answers when its try block raises
DeleteRefused(user, conversation_id, raised) ==
    [Idle EXCEPT !.op = "DELETE /{conversation_id}",
                 !.caller = user,
                 !.conversation_id = conversation_id,
                 !.raised = raised,
                 !.status = StatusOf(raised)]

\* what it answers after ChatLogs.delete_chat_log_by_conversation_id returned True
DeleteDone(user, conversation_id) ==
    [Idle EXCEPT !.op = "DELETE /{conversation_id}",
                 !.caller = user,
                 !.conversation_id = conversation_id,
                 !.status = StatusOf(NoException),
                 !.ok = TRUE]

\* DELETE /{conversation_id}, handled with no other operation in between
DeleteChatLog(user, conversation_id) ==
    LET log == GetChatLogByConversationId(table, conversation_id)
        raised == VerifyOwnership(log, user)
    IN  /\ prev' = table
        /\ IF raised /= NoException
           THEN /\ table' = table
                /\ last' = DeleteRefused(user, conversation_id, raised)
           ELSE /\ table' = DeleteByConversationId(table, conversation_id)
                /\ last' = DeleteDone(user, conversation_id)
        /\ UNCHANGED <<now, inflight>>

\* DELETE /{conversation_id}, first transaction: the lookup and the ownership check
DeleteChatLogVerify(user, conversation_id) ==
    LET log == GetChatLogByConversationId(table, conversation_id)
        raised == VerifyOwnership(log, user)
    IN  /\ [user |-> user, conversation_id |-> conversation_id] \notin inflight
        /\ IF raised /= NoException
           THEN /\ last' = DeleteRefused(user, conversation_id, raised)
                /\ prev' = table
                /\ inflight' = inflight
           ELSE /\ Cardinality(inflight) < MaxInflight
                /\ last' = last
                /\ prev' = prev
                /\ inflight' = inflight \cup {[user |-> user, conversation_id |-> conversation_id]}
        /\ UNCHANGED <<table, now>>

\* DELETE /{conversation_id}, second transaction: the deletion
DeleteChatLogCommit(req) ==
    /\ req \in inflight
    /\ inflight' = inflight \ {req}
    /\ prev' = table
    /\ table' = DeleteByConversationId(table, req.conversation_id)
    /\ last' = DeleteDone(req.user, req.conversation_id)
    /\ UNCHANGED now

---------------------------------------------------------------------------
(* Specifications *)

Create == \E c \in ConvIds, u \in Users, p \in Payloads : CreateChatLog(c, u, p)

Update == \E c \in ConvIds, u \in Users, p \in Payloads : UpdateChatLog(c, u, p)

ListByUser == \E u \in Users, skip \in Skips, limit \in Limits : ListChatLogsByUserId(u, skip, limit)

ListRequest == \E u \in Users, f \in ListFilters \cup {NoFilter} : GetChatLogs(u, f)

GetRequest == \E u \in Users, c \in ConvIds : GetChatLog(u, c)

DeleteRequest == \E u \in Users, c \in ConvIds : DeleteChatLog(u, c)

AdminDeleteRequest == \E f \in DeleteFilters \cup {NoFilter} : DeleteAllChatLogs(f)

DeleteVerify == \E u \in Users, c \in ConvIds : DeleteChatLogVerify(u, c)

DeleteCommit == \E req \in inflight : DeleteChatLogCommit(req)

\* requests and store calls handled one at a time
Next ==
    \/ Tick
    \/ Create
    \/ Update
    \/ ListByUser
    \/ ListRequest
    \/ GetRequest
    \/ DeleteRequest
    \/ AdminDeleteRequest

Spec == Init /\ [][Next]_vars

\* DELETE /{conversation_id} interleaved with store calls on the same table
NextConc ==
    \/ Tick
    \/ Create
    \/ Update
    \/ AdminDeleteRequest
    \/ DeleteVerify
    \/ DeleteCommit

SpecConc == Init /\ [][NextConc]_vars

---------------------------------------------------------------------------
(* Properties *)

\* the record the latest call or request named, before and after it
Before == GetChatLogByConversationId(prev, last.conversation_id)
After == GetChatLogByConversationId(table, last.conversation_id)

IsItemRequest == last.op \in {"GET /{conversation_id}", "DELETE /{conversation_id}"}

\* C1: GET and DELETE /{conversation_id} answer 404 when no record has the id and
\* 403 when the record belongs to another user.
C1_NotFoundAndForbidden ==
    IsItemRequest =>
        /\ Before = NoLog => last.status = HTTP_404
        /\ (Before /= NoLog /\ Before.user_id /= last.caller) => last.status = HTTP_403

IsOwnList == last.op = "GET /" /\ ~Truthy(last.filter.conversation_id)

\* C2: GET / without a conversation_id filter succeeds with the caller's own records,
\* paged newest first, and count is the number of records returned.
C2_ListOwnLogs ==
    IsOwnList =>
        /\ last.status = HTTP_200
        /\ last.count = Len(last.data)
        /\ \E logs \in GetChatLogsByUserId(prev, last.caller, last.filter.skip, last.filter.limit) :
               last.data = [i \in 1..Len(logs) |-> ChatLogResponse(logs[i])]

\* C3: create_chat_log on a conversation_id that has a record fails and leaves the
\* table, and so the existing record, as it was.
C3_DuplicateCreateFails ==
    (last.op = "create_chat_log" /\ Before /= NoLog) =>
        /\ last.raised /= NoException
        /\ last.log = NoLog
        /\ After = Before
        /\ table = prev

C3_Witness ==
    /\ last.op = "create_chat_log"
    /\ Before /= NoLog
    /\ Before.user_id /= last.user_id
    /\ Before.messages /= last.messages

\* C4: after create_chat_log on a fresh conversation_id, get_chat_log_by_conversation_id
\* returns the values passed in, with created_at = updated_at.
C4_CreateThenGet ==
    (last.op = "create_chat_log" /\ Before = NoLog) =>
        /\ last.raised = NoException
        /\ After /= NoLog
        /\ After.conversation_id = last.conversation_id
        /\ After.user_id = last.user_id
        /\ After.model = last.model
        /\ After.messages = last.messages
        /\ After.response = last.response
        /\ After.created_at = After.updated_at

C4_Witness ==
    /\ last.op = "create_chat_log"
    /\ Before = NoLog
    /\ After /= NoLog
    /\ prev /= {}

IsUpdateOfExisting == last.op = "update_chat_log" /\ Before /= NoLog

UpdateReflected ==
    /\ After /= NoLog
    /\ After.conversation_id = last.conversation_id
    /\ After.user_id = last.user_id
    /\ After.model = last.model
    /\ After.messages = last.messages
    /\ After.response = last.response
    /\ After.created_at = Before.created_at

\* C5 as stated: after update_chat_log the record has the new values, its created_at,
\* and an updated_at strictly greater than created_at.
C5_UpdatedAtStrictlyLater ==
    IsUpdateOfExisting => (UpdateReflected /\ After.updated_at > After.created_at)

\* C5: after update_chat_log the record has the new values, its created_at, and the
\* second of the update as updated_at, which is never before created_at and is
\* equal to it when the update falls in the second of the creation.
C5_UpdateThenGet ==
    IsUpdateOfExisting =>
        /\ UpdateReflected
        /\ After.updated_at = last.ts
        /\ After.updated_at >= After.created_at
        /\ (last.ts > Before.created_at) => After.updated_at > After.created_at

C5_Witness ==
    /\ IsUpdateOfExisting
    /\ After /= NoLog
    /\ After.user_id /= Before.user_id
    /\ After.messages /= Before.messages
    /\ After.updated_at = After.created_at

\* C6: update_chat_log on a conversation_id without a record returns None and leaves
\* the table as it was.
C6_UpdateMissing ==
    (last.op = "update_chat_log" /\ Before = NoLog) =>
        /\ last.log = NoLog
        /\ table = prev

C6_Witness ==
    /\ last.op = "update_chat_log"
    /\ Before = NoLog
    /\ prev /= {}

IsUserList == last.op = "get_chat_logs_by_user_id"

\* the list holds rows of the user only, as many as skip and limit leave
UserPage ==
    LET n == Cardinality(FilterByUserId(prev, last.user_id))
    IN  /\ \A i \in 1..Len(last.data) : last.data[i] \in FilterByUserId(prev, last.user_id)
        /\ \A i, j \in 1..Len(last.data) : i /= j => last.data[i] /= last.data[j]
        /\ Len(last.data) <= last.limit
        /\ Len(last.data) = Min(last.limit, IF n > last.skip THEN n - last.skip ELSE 0)

\* C7 as stated: the list is the user's page and created_at strictly decreases along it.
C7_StrictlyDescending ==
    IsUserList =>
        /\ UserPage
        /\ \A i \in 1..(Len(last.data) - 1) : last.data[i].created_at > last.data[i + 1].created_at

\* C7: the list is the user's page and created_at never increases along it; records
\* created in the same second share a created_at.
C7_Descending ==
    IsUserList =>
        /\ UserPage
        /\ \A i \in 1..(Len(last.data) - 1) : last.data[i].created_at >= last.data[i + 1].created_at

C7_Witness ==
    /\ IsUserList
    /\ Len(last.data) = 2
    /\ last.data[1].created_at = last.data[2].created_at

IsDelete == last.op = "DELETE /{conversation_id}"

\* C8: handled one at a time, a DELETE /{conversation_id} by another user than the
\* owner leaves the table as it was; only the owner's removes the record, and only
\* that record, after which the lookup finds nothing.
C8_OnlyOwnerDeletes ==
    IsDelete =>
        /\ (Before /= NoLog /\ Before.user_id /= last.caller) => table = prev
        /\ table /= prev => (Before /= NoLog /\ Before.user_id = last.caller)
        /\ (Before /= NoLog /\ Before.user_id = last.caller) =>
               (After = NoLog /\ table = prev \ {Before} /\ last.ok)

C8_Witness ==
    /\ IsDelete
    /\ Before /= NoLog
    /\ Before.user_id /= last.caller
    /\ table = prev

IsAdminDelete == last.op = "DELETE /admin"

\* C9: DELETE /admin with user_id alone removes that user's records and no others;
\* with conversation_id set it removes that conversation's record alone, whatever
\* user_id says; with neither it removes everything.
C9_AdminDeleteScope ==
    IsAdminDelete =>
        LET f == last.filter
        IN  /\ table \subseteq prev
            /\ (~Truthy(f.conversation_id) /\ Truthy(f.user_id)) =>
                   \A r \in prev : r \in table <=> r.user_id /= f.user_id
            /\ Truthy(f.conversation_id) =>
                   \A r \in prev : r \in table <=> r.conversation_id /= f.conversation_id
            /\ (~Truthy(f.conversation_id) /\ ~Truthy(f.user_id)) => table = {}

C9_Witness ==
    /\ IsAdminDelete
    /\ ~Truthy(last.filter.conversation_id)
    /\ Truthy(last.filter.user_id)
    /\ \E r \in prev : r.user_id = last.filter.user_id
    /\ \E r \in prev : r.user_id /= last.filter.user_id
    /\ table /= {}

\* C10: whatever is interleaved with it, a DELETE /{conversation_id} removes only a
\* record its caller owns at the moment of the removal.
C10_DeletesOwnRecordOnly ==
    (IsDelete /\ last.ok) => \A r \in prev \ table : r.user_id = last.caller

====
